---- MODULE Spec2Model ----
(***************************************************************************)
(* Session authentication with server-side revocation (MIndMate-BE).      *)
(*                                                                         *)
(* Token Codec (utils/jwt.rs), Revocation Store (db/token_blacklist_      *)
(* query.rs), Session Gate (middleware/auth_middleware.rs), logout        *)
(* (api/auth_handler.rs, service/auth_service.rs) and the Revocation      *)
(* Sweeper (main.rs).  Time is Unix time in seconds, relative to the      *)
(* start of the process.                                                   *)
(***************************************************************************)
EXTENDS Integers, FiniteSets, Sequences, TLC

(***************************************************************************)
(* Bounds of the model.                                                    *)
(***************************************************************************)
\* the clock runs for MaxDays days
MaxDays == 7
\* within a day the clock makes at most MaxFine steps of Leeway seconds
MaxFine == 1
\* at most MaxTokens tokens are issued, in the first MaxLoginDays days
MaxTokens == 2
MaxLoginDays == 1
\* at most MaxRecords rows are ever inserted into token_blacklist
MaxRecords == 2
\* the clock of the liveness specification tells the first MaxLiveDays days apart
MaxLiveDays == 9
\* at most MaxMoods rows are ever inserted into moods
MaxMoods == 2
\* a request that is slow stays in flight for at most MaxStall steps of Leeway seconds
MaxStall == 2

(***************************************************************************)
(* Program constants.                                                      *)
(***************************************************************************)
Day == 86400
\* sleep(Duration::from_secs(24 * 60 * 60))
SweepSleepSecs == 24 * 60 * 60
\* chrono::Duration::days(7)
RetentionSecs == 7 * Day
\* Validation::default(): expiry is validated with the default leeway
Leeway == 60
\* ttl of an issued token (utils::jwt::generate_token)
TokenTtl == Day

Subjects == {"42", "43"}
GateProcs == {"g1"}
LogoutProcs == {"l1"}
MoodProcs == {"m1", "m2"}

VARIABLES
    now,        \* the wall clock, seconds
    issued,     \* tokens returned by successful logins
    store,      \* rows of token_blacklist: [id, token, created_at]
    nextId,     \* next value of the serial column token_blacklist.id
    gate,       \* per task: a request passing AuthenticatedUser::from_request_parts
    lo,         \* per task: a POST /auth/logout request
    sweeper,    \* token_cleanup_task: [pc, sleep (seconds left to sleep), cutoff]
    revoked,    \* tokens whose logout has succeeded (insert committed)
    resp,       \* the response sent by the step just taken, if it sent one
    logins,     \* successful logins: [sub, at, token]
    out,        \* the line the Sweeper printed in the step just taken, if any
    boot,       \* the process: [phase, jwtSecret, databaseUrl]
    users,      \* rows of users: [id, email, password (the stored hash)]
    moods,      \* rows of moods: [id, user_id, date]
    cm          \* per task: a POST /moods request between its check and its insert

vars == <<now, issued, store, nextId, gate, lo, sweeper, revoked, resp,
          logins, out, boot, users, moods, cm>>

(***************************************************************************)
(* Token strings.  A token string is determined by its claims and by       *)
(* whether its signature verifies against JWT_SECRET.                      *)
(***************************************************************************)
Malformed == [sub |-> "", exp |-> 0, sig |-> "malformed"]

\* utils::jwt::generate_token(sub) at time t
generate_token(sub, t) == [sub |-> sub, exp |-> t + TokenTtl, sig |-> "good"]

\* the same claims under a signature that does not verify
Forge(tok) == [tok EXCEPT !.sig = "bad"]

\* variant: the leeway is a day instead of a minute
Expired_WideLeeway(tok, t) == tok.exp < t - Day

\* variant: exp is not validated (validate_exp = false)
Expired_NotValidated(tok, t) == FALSE

\* variant: the comparison is turned around
Expired_Inverted(tok, t) == tok.exp > t - Leeway

\* jsonwebtoken validation of exp: expired iff exp < now - leeway
Expired(tok, t) == tok.exp < t - Leeway

\* utils::jwt::validate_token: Ok(claims) or Err(Unauthorized("Invalid token"))
validate_token(tok, t) ==
    IF tok.sig = "good" /\ ~Expired(tok, t)
    THEN [ok |-> TRUE, sub |-> tok.sub, exp |-> tok.exp]
    ELSE [ok |-> FALSE, sub |-> "", exp |-> 0]

(***************************************************************************)
(* Authorization headers: absent, not valid visible ASCII (to_str fails),  *)
(* or a string made of a prefix of 7 characters and the rest.              *)
(***************************************************************************)
NoToken == Malformed
HeaderAbsent == [kind |-> "absent", prefix |-> "", rest |-> NoToken]
TextHeader(p, tok) == [kind |-> "text", prefix |-> p, rest |-> tok]
OpaqueHeader(tok) == [kind |-> "opaque", prefix |-> "Bearer ", rest |-> tok]

\* variant: the scheme is not compared
StartsWithBearer_AnyScheme(h) == TRUE

\* auth_str.starts_with("Bearer ")
StartsWithBearer(h) == h.prefix = "Bearer "

\* the token strings a client can present
Presentable == issued \cup {Forge(t) : t \in issued} \cup {Malformed}
Headers ==
    {HeaderAbsent, OpaqueHeader(Malformed)}
    \cup {TextHeader("Token  ", t) : t \in issued}
    \cup {TextHeader("Bearer ", t) : t \in Presentable}

\* the checks on the header shared by the gate and the logout handler:
\* the rejection message, or "" when the token can be sliced out
HeaderError(h) ==
    IF h.kind = "absent" THEN "Authorization header missing"
    ELSE IF h.kind = "opaque" THEN "Invalid Authorization header"
    ELSE IF ~StartsWithBearer(h) THEN "Invalid Authorization scheme"
    ELSE ""

(***************************************************************************)
(* AppError and its HTTP status.                                           *)
(***************************************************************************)
\* into_response has no arm for DatabaseError (the kind the store queries
\* return); its status is left open as 0
StatusCode(kind) ==
    CASE kind = "Ok" -> 200
      [] kind = "NotFound" -> 404
      [] kind = "BadRequest" -> 400
      [] kind = "Unauthorized" -> 401
      [] kind = "InternalServerError" -> 500
      [] OTHER -> 0

(***************************************************************************)
(* Revocation Store.                                                       *)
(***************************************************************************)
\* variant: the filter matches the rows of the token's subject
is_token_blacklisted_BySubject(s, tok) == \E r \in s : r.token.sub = tok.sub

\* token_blacklist.filter(token.eq(token_str)).first(): found or NotFound
is_token_blacklisted(s, tok) == \E r \in s : r.token = tok

\* variant: the insert statement is built but not executed
insert_blacklisted_token_NotExecuted(s, id, tok, t) == s

\* insert_into(token_blacklist).values(id: None, token, created_at: now)
insert_blacklisted_token(s, id, tok, t) ==
    s \cup {[id |-> id, token |-> tok, created_at |-> t]}

\* variant: the filter is created_at.le(cutoff_date)
cleanup_expired_tokens_Le(s, cutoff) == {r \in s : ~(r.created_at <= cutoff)}

\* variant: token_blacklist.token carries a unique index
insert_error_Unique(s, tok, dbOk) == ~dbOk \/ \E r \in s : r.token = tok

\* .execute(conn) of the insert is Err when the database fails the statement;
\* the table as declared has no constraint that a row could violate
insert_error(s, tok, dbOk) == ~dbOk

\* delete(token_blacklist.filter(created_at.lt(cutoff_date)))
cleanup_expired_tokens(s, cutoff) == {r \in s : ~(r.created_at < cutoff)}

\* the usize that the delete statement returns: the number of rows deleted
deleted_count(s, cutoff) == Cardinality({r \in s : r.created_at < cutoff})

StoreTokens == {r.token : r \in store}

(***************************************************************************)
(* Requests.  A request in flight records how far it got: the header it    *)
(* carries, whether it took a pool connection, whether its token decoded   *)
(* and what the membership query answered, with what was true of its token *)
(* when it was decoded and when the store was queried.                     *)
(***************************************************************************)
Idle ==
    [pc |-> "idle", hdr |-> HeaderAbsent, kind |-> "none", msg |-> "",
     principal |-> "", conn |-> "none", decoded |-> FALSE, check |-> "none",
     afterRevoke |-> FALSE, presentAtCheck |-> FALSE, revokedAtCheck |-> FALSE,
     dueAtDecode |-> FALSE, staleAtDecode |-> FALSE,
     presentAtInsert |-> FALSE, insertFault |-> FALSE]

NoResp == [op |-> "none", req |-> Idle]

\* what token_cleanup_task prints: "Cleaned up {count} expired tokens",
\* "Failed to cleanup expired tokens", "Failed to get DB connection for
\* cleanup"; cutoff is the cutoff_date of that iteration
NoOut == [kind |-> "none", count |-> 0, cutoff |-> 0]

\* the process once main has reached axum::serve, JWT_SECRET being set
Serving == [phase |-> "serving", jwtSecret |-> TRUE, databaseUrl |-> TRUE]

\* a request carrying header h enters its handler
Begin(h) ==
    [Idle EXCEPT !.hdr = h,
                 !.afterRevoke = (h.rest \in revoked),
                 !.dueAtDecode = (now >= h.rest.exp),
                 !.staleAtDecode = (now > h.rest.exp + Leeway)]

\* Err(AppError::kind(msg))
Reject(r, kind, msg) == [r EXCEPT !.pc = "Rejected", !.kind = kind, !.msg = msg]

(***************************************************************************)
(* Accounts: the users table, bcrypt, login_user and the handlers behind   *)
(* the gate.                                                               *)
(***************************************************************************)
UserIds == {42, 43}
Emails == {"u42@x", "u43@x", "nobody@x"}
Passwords == {"pw1", "pw2"}

\* user.id.to_string()
to_string(id) == CASE id = 42 -> "42" [] id = 43 -> "43" [] OTHER -> "?"

\* user.user_id().parse::<i32>()
parse(str) ==
    IF \E i \in UserIds : to_string(i) = str
    THEN [ok |-> TRUE, value |-> CHOOSE i \in UserIds : to_string(i) = str]
    ELSE [ok |-> FALSE, value |-> 0]

\* bcrypt::hash(password, DEFAULT_COST)
hash(pw) == [alg |-> "bcrypt", of |-> pw]

\* a stored password that is not a bcrypt hash string
NotAHash(pw) == [alg |-> "plain", of |-> pw]

\* bcrypt::verify(password, hash): Err on a string that is not a bcrypt hash
verify(pw, h) ==
    IF h.alg = "bcrypt" THEN [ok |-> TRUE, valid |-> (h.of = pw)]
    ELSE [ok |-> FALSE, valid |-> FALSE]

\* the accounts of the token subjects, as register_user stores them
RegisteredUsers ==
    {[id |-> i, email |-> "u" \o to_string(i) \o "@x", password |-> hash("pw1")] : i \in UserIds}

\* the same table with the password column of user 43 not a bcrypt hash
UsersWithBrokenHash ==
    {[u EXCEPT !.password = IF u.id = 43 THEN NotAHash("pw1") ELSE @] : u \in RegisteredUsers}

\* a record r with the fields of e added
Ext(r, e) ==
    [f \in (DOMAIN r) \cup (DOMAIN e) |-> IF f \in DOMAIN e THEN e[f] ELSE r[f]]

\* Err(AppError::kind(msg)) of login_user
LoginErr(kind, msg) == [kind |-> kind, msg |-> msg, token |-> NoToken]

\* variant: the error of find_user_by_email is passed on with `?`
login_user_NotFoundPassedOn(us, email, pw, poolOk, queryOk, t) ==
    LET rows == {u \in us : u.email = email}
        user == CHOOSE u \in rows : TRUE
        v == verify(pw, user.password)
    IN  IF ~poolOk THEN LoginErr("InternalServerError", "Failed to get DB connection")
        ELSE IF ~queryOk THEN LoginErr("DatabaseError", "query failed")
        ELSE IF rows = {} THEN LoginErr("NotFound", "User not found")
        ELSE IF ~v.ok THEN LoginErr("InternalServerError", "Failed to verify password")
        ELSE IF ~v.valid THEN LoginErr("Unauthorized", "Invalid email or password")
        ELSE [kind |-> "Ok", msg |-> "", token |-> generate_token(to_string(user.id), t)]

\* auth_service::login_user
login_user(us, email, pw, poolOk, queryOk, t) ==
    LET rows == {u \in us : u.email = email}
        user == CHOOSE u \in rows : TRUE
        v == verify(pw, user.password)
    IN  IF ~poolOk THEN LoginErr("InternalServerError", "Failed to get DB connection")
        ELSE IF ~queryOk \/ rows = {}
             THEN LoginErr("Unauthorized", "Invalid email or password")
        ELSE IF ~v.ok THEN LoginErr("InternalServerError", "Failed to verify password")
        ELSE IF ~v.valid THEN LoginErr("Unauthorized", "Invalid email or password")
        ELSE [kind |-> "Ok", msg |-> "", token |-> generate_token(to_string(user.id), t)]

\* user_service::change_password with user_query::update_user_password
change_password(us, user_id, old, new, poolOk, updateOk) ==
    LET rows == {u \in us : u.id = user_id}
        user == CHOOSE u \in rows : TRUE
        v == verify(old, user.password)
    IN  IF ~poolOk
        THEN [kind |-> "InternalServerError", msg |-> "Failed to get DB connection", users |-> us]
        ELSE IF rows = {} THEN [kind |-> "NotFound", msg |-> "User not found", users |-> us]
        ELSE IF ~v.ok
        THEN [kind |-> "InternalServerError", msg |-> "Failed to verify password", users |-> us]
        ELSE IF ~v.valid
        THEN [kind |-> "BadRequest", msg |-> "Invalid old password", users |-> us]
        ELSE IF ~updateOk THEN [kind |-> "DatabaseError", msg |-> "update failed", users |-> us]
        ELSE [kind |-> "Ok", msg |-> "Password changed successfully",
              users |-> {[u EXCEPT !.password = IF u.id = user_id THEN hash(new) ELSE @]
                           : u \in us}]

(***************************************************************************)
(* Moods: service::mood_service::create_mood.                              *)
(***************************************************************************)
\* Option<NaiveDate>; a date is a day number
NoDate == [some |-> FALSE, day |-> 0]
SomeDate(d) == [some |-> TRUE, day |-> d]
Dates == {NoDate, SomeDate(1)}
MoodNames == {"happy", "bored"}

\* MoodType::from_str(mood).is_some()
MoodTypeKnown(m) == m \in {"very sad", "sad", "neutral", "happy", "very happy"}

\* date.unwrap_or_else(|| Utc::now().date_naive())
mood_date(date, t) == IF date.some THEN date.day ELSE t \div Day

\* mood_query::check_mood_exists_for_date
check_mood_exists_for_date(ms, user_id, d) ==
    \E m \in ms : m.user_id = user_id /\ m.date = d

MoodIdle == [pc |-> "idle", user_id |-> 0, date |-> NoDate]

Init ==
    /\ now = 0
    /\ issued = {}
    /\ store = {}
    /\ nextId = 1
    /\ gate = [p \in GateProcs |-> Idle]
    /\ lo = [p \in LogoutProcs |-> Idle]
    /\ sweeper = [pc |-> "sleep", sleep |-> SweepSleepSecs, cutoff |-> 0]
    /\ revoked = {}
    /\ resp = NoResp
    /\ logins = {}
    /\ out = NoOut
    /\ boot = Serving
    /\ users = RegisteredUsers
    /\ moods = {}
    /\ cm = [p \in MoodProcs |-> MoodIdle]

(***************************************************************************)
(* The clock.                                                              *)
(***************************************************************************)
\* d seconds pass: the clock advances and a pending sleep gets d seconds shorter
Elapse(d) ==
    /\ now' = now + d
    /\ sweeper' = IF sweeper.pc = "sleep" /\ sweeper.sleep > 0
                  THEN [sweeper EXCEPT !.sleep = IF @ > d THEN @ - d ELSE 0]
                  ELSE sweeper
    /\ resp' = NoResp
    /\ out' = NoOut
    /\ UNCHANGED <<issued, store, nextId, gate, lo, revoked, logins, boot, users, moods, cm>>

\* a handler or a sweep is between two of its steps
InFlight ==
    \/ \E p \in DOMAIN gate : gate[p].pc # "idle"
    \/ \E p \in DOMAIN lo : lo[p].pc # "idle"
    \/ sweeper.pc # "sleep"

\* a day passes; no call on the pool or the store stays blocked for a day
TickDay ==
    /\ now + Day <= MaxDays * Day + MaxFine * Leeway
    /\ ~InFlight
    /\ Elapse(Day)

TickLeeway ==
    /\ (now % Day) < MaxFine * Leeway
    /\ Elapse(Leeway)

(***************************************************************************)
(* login_user, successful path: a token is generated for the user id.      *)
(***************************************************************************)
Login(u) ==
    /\ Cardinality(issued) < MaxTokens
    /\ now < MaxLoginDays * Day
    /\ boot.jwtSecret
    /\ issued' = issued \cup {generate_token(u, now)}
    /\ logins' = logins \cup {[sub |-> u, at |-> now, token |-> generate_token(u, now)]}
    /\ resp' = NoResp
    /\ out' = NoOut
    /\ UNCHANGED <<now, store, nextId, gate, lo, sweeper, revoked, boot, users, moods, cm>>

(***************************************************************************)
(* Session Gate: AuthenticatedUser::from_request_parts.                    *)
(* GateStart runs up to and including state.get(); GateCheck is the        *)
(* membership query and what follows it.                                   *)
(***************************************************************************)
\* variant: the decode error is passed on with `?` (From<jsonwebtoken::errors::Error>)
GateStartResult_TokenErrorInternal(h, poolOk) ==
    LET g == Begin(h)
        v == validate_token(h.rest, now)
    IN  IF HeaderError(h) # "" THEN Reject(g, "Unauthorized", HeaderError(h))
        ELSE IF ~v.ok THEN Reject(g, "InternalServerError", "Invalid token")
        ELSE IF ~poolOk
             THEN Reject([g EXCEPT !.decoded = TRUE, !.conn = "failed"],
                         "InternalServerError", "Failed to get DB connection")
        ELSE [g EXCEPT !.pc = "check", !.decoded = TRUE, !.conn = "ok",
                       !.principal = v.sub]

\* variant: the connection is taken before the token is decoded (the order of logout_user)
GateStartResult_PoolFirst(h, poolOk) ==
    LET g == Begin(h)
        v == validate_token(h.rest, now)
    IN  IF HeaderError(h) # "" THEN Reject(g, "Unauthorized", HeaderError(h))
        ELSE IF ~poolOk
             THEN Reject([g EXCEPT !.conn = "failed"],
                         "InternalServerError", "Failed to get DB connection")
        ELSE IF ~v.ok
             THEN Reject([g EXCEPT !.conn = "ok"], "Unauthorized", "Invalid token")
        ELSE [g EXCEPT !.pc = "check", !.decoded = TRUE, !.conn = "ok",
                       !.principal = v.sub]

GateStartResult(h, poolOk) ==
    LET g == Begin(h)
        v == validate_token(h.rest, now)
    IN  IF HeaderError(h) # "" THEN Reject(g, "Unauthorized", HeaderError(h))
        ELSE IF ~v.ok THEN Reject(g, "Unauthorized", "Invalid token")
        ELSE IF ~poolOk
             THEN Reject([g EXCEPT !.decoded = TRUE, !.conn = "failed"],
                         "InternalServerError", "Failed to get DB connection")
        ELSE [g EXCEPT !.pc = "check", !.decoded = TRUE, !.conn = "ok",
                       !.principal = v.sub]

\* variant: a failed membership query counts as "not blacklisted"
GateCheckResult_FailOpen(g, queryOk) ==
    LET tok == g.hdr.rest
        seen == [g EXCEPT !.presentAtCheck = (tok \in StoreTokens),
                          !.revokedAtCheck = (tok \in revoked)]
    IN  IF queryOk /\ is_token_blacklisted(store, tok)
        THEN Reject([seen EXCEPT !.check = "present"],
                    "Unauthorized", "Token is blacklisted")
        ELSE [seen EXCEPT !.check = IF queryOk THEN "absent" ELSE "error",
                          !.pc = "Authenticated", !.kind = "Ok"]

\* variant: the answer of the membership query is not looked at
GateCheckResult_NoBlacklist(g, queryOk) ==
    LET tok == g.hdr.rest
        seen == [g EXCEPT !.presentAtCheck = (tok \in StoreTokens),
                          !.revokedAtCheck = (tok \in revoked)]
    IN  IF ~queryOk
        THEN Reject([seen EXCEPT !.check = "error"],
                    "InternalServerError", "Failed to check token blacklist")
        ELSE [seen EXCEPT !.check = IF is_token_blacklisted(store, tok)
                                    THEN "present" ELSE "absent",
                          !.pc = "Authenticated", !.kind = "Ok"]

\* variant: the gate only sees the rows that were committed when the request began
GateCheckResult_Stale(g, queryOk) ==
    LET tok == g.hdr.rest
        seen == [g EXCEPT !.presentAtCheck = (tok \in StoreTokens),
                          !.revokedAtCheck = (tok \in revoked)]
    IN  IF ~queryOk
        THEN Reject([seen EXCEPT !.check = "error"],
                    "InternalServerError", "Failed to check token blacklist")
        ELSE IF g.afterRevoke /\ is_token_blacklisted(store, tok)
        THEN Reject([seen EXCEPT !.check = "present"],
                    "Unauthorized", "Token is blacklisted")
        ELSE [seen EXCEPT !.check = "absent", !.pc = "Authenticated", !.kind = "Ok"]

GateCheckResult(g, queryOk) ==
    LET tok == g.hdr.rest
        seen == [g EXCEPT !.presentAtCheck = (tok \in StoreTokens),
                          !.revokedAtCheck = (tok \in revoked)]
    IN  IF ~queryOk
        THEN Reject([seen EXCEPT !.check = "error"],
                    "InternalServerError", "Failed to check token blacklist")
        ELSE IF is_token_blacklisted(store, tok)
        THEN Reject([seen EXCEPT !.check = "present"],
                    "Unauthorized", "Token is blacklisted")
        ELSE [seen EXCEPT !.check = "absent", !.pc = "Authenticated", !.kind = "Ok"]

\* the request either waits for its next step or is answered
GateSettle(p, r) ==
    IF r.pc = "check"
    THEN gate' = [gate EXCEPT ![p] = r] /\ resp' = NoResp
    ELSE gate' = [gate EXCEPT ![p] = Idle] /\ resp' = [op |-> "gate", req |-> r]

GateStart(p, h, poolOk) ==
    /\ gate[p].pc = "idle"
    /\ HeaderError(h) = "" => boot.jwtSecret
    /\ GateSettle(p, GateStartResult(h, poolOk))
    /\ out' = NoOut
    /\ UNCHANGED <<now, issued, store, nextId, lo, sweeper, revoked, logins, boot, users, moods, cm>>

GateCheck(p, queryOk) ==
    /\ gate[p].pc = "check"
    /\ GateSettle(p, GateCheckResult(gate[p], queryOk))
    /\ out' = NoOut
    /\ UNCHANGED <<now, issued, store, nextId, lo, sweeper, revoked, logins, boot, users, moods, cm>>

(***************************************************************************)
(* Logout: api::auth_handler::logout calling auth_service::logout_user.    *)
(* LogoutStart runs the handler's header checks, pool.get() and            *)
(* validate_token; LogoutCheck the membership query; LogoutInsert the      *)
(* insert.                                                                 *)
(***************************************************************************)
\* variant: logout_user does not call validate_token
LogoutStartResult_NoValidate(h, poolOk) ==
    LET l == Begin(h)
    IN  IF HeaderError(h) # "" THEN Reject(l, "Unauthorized", HeaderError(h))
        ELSE IF ~poolOk
             THEN Reject([l EXCEPT !.conn = "failed"],
                         "InternalServerError", "Failed to get DB connection")
        ELSE [l EXCEPT !.pc = "check", !.conn = "ok", !.decoded = TRUE]

LogoutStartResult(h, poolOk) ==
    LET l == Begin(h)
        v == validate_token(h.rest, now)
    IN  IF HeaderError(h) # "" THEN Reject(l, "Unauthorized", HeaderError(h))
        ELSE IF ~poolOk
             THEN Reject([l EXCEPT !.conn = "failed"],
                         "InternalServerError", "Failed to get DB connection")
        ELSE IF ~v.ok
             THEN Reject([l EXCEPT !.conn = "ok"], "Unauthorized", "Invalid token")
        ELSE [l EXCEPT !.pc = "check", !.conn = "ok", !.decoded = TRUE]

\* variant: a failed membership query is taken as "not blacklisted" (unwrap_or(false))
LogoutCheckResult_ErrorSwallowed(l, queryOk) ==
    LET tok == l.hdr.rest
        seen == [l EXCEPT !.presentAtCheck = (tok \in StoreTokens),
                          !.revokedAtCheck = (tok \in revoked)]
    IN  IF queryOk /\ is_token_blacklisted(store, tok)
        THEN Reject([seen EXCEPT !.check = "present"],
                    "Unauthorized", "Token is already blacklisted")
        ELSE [seen EXCEPT !.check = IF queryOk THEN "absent" ELSE "error",
                          !.pc = "insert"]

\* variant: logout does not look at the answer of the membership query
LogoutCheckResult_NoBlacklist(l, queryOk) ==
    LET tok == l.hdr.rest
        seen == [l EXCEPT !.presentAtCheck = (tok \in StoreTokens),
                          !.revokedAtCheck = (tok \in revoked)]
    IN  IF ~queryOk
        THEN Reject([seen EXCEPT !.check = "error"],
                    "InternalServerError", "Failed to check token blacklist")
        ELSE [seen EXCEPT !.check = IF is_token_blacklisted(store, tok)
                                    THEN "present" ELSE "absent",
                          !.pc = "insert"]

LogoutCheckResult(l, queryOk) ==
    LET tok == l.hdr.rest
        seen == [l EXCEPT !.presentAtCheck = (tok \in StoreTokens),
                          !.revokedAtCheck = (tok \in revoked)]
    IN  IF ~queryOk
        THEN Reject([seen EXCEPT !.check = "error"],
                    "InternalServerError", "Failed to check token blacklist")
        ELSE IF is_token_blacklisted(store, tok)
        THEN Reject([seen EXCEPT !.check = "present"],
                    "Unauthorized", "Token is already blacklisted")
        ELSE [seen EXCEPT !.check = "absent", !.pc = "insert"]

LogoutSettle(p, r) ==
    IF r.pc \in {"check", "insert"}
    THEN lo' = [lo EXCEPT ![p] = r] /\ resp' = NoResp
    ELSE lo' = [lo EXCEPT ![p] = Idle] /\ resp' = [op |-> "logout", req |-> r]

LogoutStart(p, h, poolOk) ==
    /\ lo[p].pc = "idle"
    /\ (HeaderError(h) = "" /\ poolOk) => boot.jwtSecret
    /\ LogoutSettle(p, LogoutStartResult(h, poolOk))
    /\ out' = NoOut
    /\ UNCHANGED <<now, issued, store, nextId, gate, sweeper, revoked, logins, boot, users, moods, cm>>

LogoutCheck(p, queryOk) ==
    /\ lo[p].pc = "check"
    /\ LogoutSettle(p, LogoutCheckResult(lo[p], queryOk))
    /\ out' = NoOut
    /\ UNCHANGED <<now, issued, store, nextId, gate, sweeper, revoked, logins, boot, users, moods, cm>>

LogoutInsert(p, insertOk) ==
    /\ lo[p].pc = "insert"
    /\ nextId <= MaxRecords
    /\ LET l == [lo[p] EXCEPT !.presentAtInsert = (lo[p].hdr.rest \in StoreTokens),
                              !.insertFault = ~insertOk]
       IN  IF ~insert_error(store, l.hdr.rest, insertOk)
           THEN /\ store' = insert_blacklisted_token(store, nextId, l.hdr.rest, now)
                /\ nextId' = nextId + 1
                /\ revoked' = revoked \cup {l.hdr.rest}
                /\ LogoutSettle(p, [l EXCEPT !.pc = "Done", !.kind = "Ok",
                                             !.msg = "Successfully logged out"])
           ELSE /\ LogoutSettle(p, Reject(l, "DatabaseError", "insert failed"))
                /\ UNCHANGED <<store, nextId, revoked>>
    /\ out' = NoOut
    /\ UNCHANGED <<now, issued, gate, sweeper, logins, boot, users, moods, cm>>

(***************************************************************************)
(* Revocation Sweeper: token_cleanup_task.                                 *)
(***************************************************************************)
\* the sleep is over; cutoff_date is computed and pool.get() is called
\* variant: the sweep comes before the sleep in the loop body
SweepWake_NoSleep(poolOk) ==
    /\ sweeper.pc = "sleep"
    /\ sweeper' = IF poolOk
                  THEN [pc |-> "delete", sleep |-> 0, cutoff |-> now - RetentionSecs]
                  ELSE [pc |-> "sleep", sleep |-> SweepSleepSecs, cutoff |-> 0]
    /\ out' = IF poolOk THEN NoOut
              ELSE [kind |-> "Failed to get DB connection for cleanup",
                    count |-> 0, cutoff |-> now - RetentionSecs]
    /\ resp' = NoResp
    /\ UNCHANGED <<now, issued, store, nextId, gate, lo, revoked, logins, boot, users, moods, cm>>

SweepWake(poolOk) ==
    /\ sweeper.pc = "sleep"
    /\ sweeper.sleep = 0
    /\ sweeper' = IF poolOk
                  THEN [pc |-> "delete", sleep |-> 0, cutoff |-> now - RetentionSecs]
                  ELSE [pc |-> "sleep", sleep |-> SweepSleepSecs, cutoff |-> 0]
    /\ out' = IF poolOk THEN NoOut
              ELSE [kind |-> "Failed to get DB connection for cleanup",
                    count |-> 0, cutoff |-> now - RetentionSecs]
    /\ resp' = NoResp
    /\ UNCHANGED <<now, issued, store, nextId, gate, lo, revoked, logins, boot, users, moods, cm>>

\* variant: the delete error leaves the loop (`?` or unwrap in the task)
SweepDelete_FatalOnError(deleteOk) ==
    /\ sweeper.pc = "delete"
    /\ store' = IF deleteOk THEN cleanup_expired_tokens(store, sweeper.cutoff)
                ELSE store
    /\ sweeper' = IF deleteOk
                  THEN [pc |-> "sleep", sleep |-> SweepSleepSecs, cutoff |-> 0]
                  ELSE [pc |-> "dead", sleep |-> 0, cutoff |-> 0]
    /\ out' = IF deleteOk
              THEN [kind |-> "Cleaned up",
                    count |-> deleted_count(store, sweeper.cutoff),
                    cutoff |-> sweeper.cutoff]
              ELSE [kind |-> "Failed to cleanup expired tokens",
                    count |-> 0, cutoff |-> sweeper.cutoff]
    /\ resp' = NoResp
    /\ UNCHANGED <<now, issued, nextId, gate, lo, revoked, logins, boot, users, moods, cm>>

\* cleanup_expired_tokens runs (or fails); the loop goes back to sleep
SweepDelete(deleteOk) ==
    /\ sweeper.pc = "delete"
    /\ store' = IF deleteOk THEN cleanup_expired_tokens(store, sweeper.cutoff)
                ELSE store
    /\ sweeper' = [pc |-> "sleep", sleep |-> SweepSleepSecs, cutoff |-> 0]
    /\ out' = IF deleteOk
              THEN [kind |-> "Cleaned up",
                    count |-> deleted_count(store, sweeper.cutoff),
                    cutoff |-> sweeper.cutoff]
              ELSE [kind |-> "Failed to cleanup expired tokens",
                    count |-> 0, cutoff |-> sweeper.cutoff]
    /\ resp' = NoResp
    /\ UNCHANGED <<now, issued, nextId, gate, lo, revoked, logins, boot, users, moods, cm>>

Next ==
    \/ TickDay
    \/ TickLeeway
    \/ \E u \in Subjects : Login(u)
    \/ \E p \in DOMAIN gate, h \in Headers, poolOk \in BOOLEAN : GateStart(p, h, poolOk)
    \/ \E p \in DOMAIN gate, queryOk \in BOOLEAN : GateCheck(p, queryOk)
    \/ \E p \in DOMAIN lo, h \in Headers, poolOk \in BOOLEAN : LogoutStart(p, h, poolOk)
    \/ \E p \in DOMAIN lo, queryOk \in BOOLEAN : LogoutCheck(p, queryOk)
    \/ \E p \in DOMAIN lo, insertOk \in BOOLEAN : LogoutInsert(p, insertOk)
    \/ \E poolOk \in BOOLEAN : SweepWake(poolOk)
    \/ \E deleteOk \in BOOLEAN : SweepDelete(deleteOk)

Spec == Init /\ [][Next]_vars

(***************************************************************************)
(* Two logout requests in parallel, each on its own connection, with the   *)
(* Sweeper; no other request is made.                                      *)
(***************************************************************************)
RaceProcs == {"l1", "l2"}

InitRace ==
    /\ now = 0
    /\ issued = {}
    /\ store = {}
    /\ nextId = 1
    /\ gate = [p \in {} |-> Idle]
    /\ lo = [p \in RaceProcs |-> Idle]
    /\ sweeper = [pc |-> "sleep", sleep |-> SweepSleepSecs, cutoff |-> 0]
    /\ revoked = {}
    /\ resp = NoResp
    /\ logins = {}
    /\ out = NoOut
    /\ boot = Serving
    /\ users = RegisteredUsers
    /\ moods = {}
    /\ cm = [p \in MoodProcs |-> MoodIdle]

NextRace ==
    \/ TickDay
    \/ TickLeeway
    \/ \E u \in Subjects : Login(u)
    \/ \E p \in DOMAIN lo, h \in Headers, poolOk \in BOOLEAN : LogoutStart(p, h, poolOk)
    \/ \E p \in DOMAIN lo, queryOk \in BOOLEAN : LogoutCheck(p, queryOk)
    \/ \E p \in DOMAIN lo, insertOk \in BOOLEAN : LogoutInsert(p, insertOk)
    \/ \E poolOk \in BOOLEAN : SweepWake(poolOk)
    \/ \E deleteOk \in BOOLEAN : SweepDelete(deleteOk)

SpecRace == InitRace /\ [][NextRace]_vars

(***************************************************************************)
(* Logout with the Sweeper under a finer clock: a logout may wait on the   *)
(* store (pool, SQLite lock) for minutes between two of its statements.    *)
(* No gated request is made.                                               *)
(***************************************************************************)
InitSlow ==
    /\ now = 0
    /\ issued = {}
    /\ store = {}
    /\ nextId = 1
    /\ gate = [p \in {} |-> Idle]
    /\ lo = [p \in LogoutProcs |-> Idle]
    /\ sweeper = [pc |-> "sleep", sleep |-> SweepSleepSecs, cutoff |-> 0]
    /\ revoked = {}
    /\ resp = NoResp
    /\ logins = {}
    /\ out = NoOut
    /\ boot = Serving
    /\ users = RegisteredUsers
    /\ moods = {}
    /\ cm = [p \in MoodProcs |-> MoodIdle]

\* Leeway seconds pass, whatever is in flight
TickSlow ==
    /\ (now % Day) < MaxStall * Leeway
    /\ Elapse(Leeway)

NextSlow ==
    \/ TickDay
    \/ TickSlow
    \/ \E u \in Subjects : Login(u)
    \/ \E p \in DOMAIN lo, h \in Headers, poolOk \in BOOLEAN : LogoutStart(p, h, poolOk)
    \/ \E p \in DOMAIN lo, queryOk \in BOOLEAN : LogoutCheck(p, queryOk)
    \/ \E p \in DOMAIN lo, insertOk \in BOOLEAN : LogoutInsert(p, insertOk)
    \/ \E poolOk \in BOOLEAN : SweepWake(poolOk)
    \/ \E deleteOk \in BOOLEAN : SweepDelete(deleteOk)

SpecSlow == InitSlow /\ [][NextSlow]_vars

(***************************************************************************)
(* Logout and the Sweeper under fair scheduling.  The clock tells the      *)
(* first MaxLiveDays days apart; later than that, time still passes (the   *)
(* sleep of the Sweeper ends) but `now` stays at the last day.  No gated   *)
(* request is made, and a logout begins only while the store has room.     *)
(***************************************************************************)
TickLive ==
    /\ ~InFlight
    /\ IF now + Day <= MaxLiveDays * Day + MaxFine * Leeway
       THEN Elapse(Day)
       ELSE /\ sweeper.sleep > 0
            /\ sweeper' = [sweeper EXCEPT !.sleep = 0]
            /\ resp' = NoResp
            /\ out' = NoOut
            /\ UNCHANGED <<now, issued, store, nextId, gate, lo, revoked, logins, boot, users, moods, cm>>

LogoutStep ==
    \/ \E p \in DOMAIN lo, queryOk \in BOOLEAN : LogoutCheck(p, queryOk)
    \/ \E p \in DOMAIN lo, insertOk \in BOOLEAN : LogoutInsert(p, insertOk)

NextLive ==
    \/ TickLive
    \/ TickLeeway
    \/ \E u \in Subjects : Login(u)
    \/ nextId <= MaxRecords
         /\ \E p \in DOMAIN lo, h \in Headers, poolOk \in BOOLEAN : LogoutStart(p, h, poolOk)
    \/ LogoutStep
    \/ \E poolOk \in BOOLEAN : SweepWake(poolOk)
    \/ \E deleteOk \in BOOLEAN : SweepDelete(deleteOk)

\* time passes however many requests arrive, a request in flight is served
\* to its end, the Sweeper task is scheduled, and a sweep that is tried again
\* and again succeeds
SpecLive ==
    /\ InitSlow
    /\ [][NextLive]_vars
    /\ SF_vars(TickLive)
    /\ WF_vars(LogoutStep)
    /\ SF_vars(SweepWake(TRUE))
    /\ SF_vars(SweepDelete(TRUE))

(***************************************************************************)
(* Login, and the handlers that take an AuthenticatedUser: axum calls a    *)
(* handler only when every extractor has returned Ok, so a handler step    *)
(* follows the gate's acceptance of the same request.                      *)
(***************************************************************************)
\* api::auth_handler::login
LoginAttempt(email, pw, poolOk, queryOk) ==
    /\ boot.jwtSecret
    /\ LET r == login_user(users, email, pw, poolOk, queryOk, now)
           ok == r.kind = "Ok"
       IN  /\ ok => Cardinality(issued \cup {r.token}) <= MaxTokens
           /\ issued' = IF ok THEN issued \cup {r.token} ELSE issued
           /\ logins' = IF ok
                        THEN logins \cup {[sub |-> r.token.sub, at |-> now, token |-> r.token]}
                        ELSE logins
           /\ resp' = [op |-> "login",
                       req |-> Ext([Idle EXCEPT !.pc = IF ok THEN "Done" ELSE "Rejected",
                                                !.kind = r.kind, !.msg = r.msg,
                                                !.conn = IF poolOk THEN "ok" ELSE "failed"],
                                   [email |-> email, password |-> pw, token |-> r.token,
                                    query |-> IF ~poolOk THEN "none"
                                              ELSE IF queryOk THEN "ok" ELSE "error"])]
    /\ out' = NoOut
    /\ UNCHANGED <<now, store, nextId, gate, lo, sweeper, revoked, boot, users, moods, cm>>

\* the request that the gate has just accepted
Authenticated == resp.op = "gate" /\ resp.req.pc = "Authenticated"

\* api::user_handler::change_password_handler
ChangePassword(old, new, poolOk, updateOk) ==
    /\ Authenticated
    /\ LET id == parse(resp.req.principal)
           r == change_password(users, id.value, old, new, poolOk, updateOk)
           more == [user_id |-> id.value, old |-> old, new |-> new, pool |-> poolOk]
       IN  IF ~id.ok
           THEN /\ resp' = [op |-> "change_password",
                            req |-> Ext(Reject(resp.req, "BadRequest", "Invalid user id"), more)]
                /\ users' = users
           ELSE /\ resp' = [op |-> "change_password",
                            req |-> Ext([resp.req EXCEPT !.pc = IF r.kind = "Ok" THEN "Done"
                                                               ELSE "Rejected",
                                                         !.kind = r.kind, !.msg = r.msg], more)]
                /\ users' = r.users
    /\ out' = NoOut
    /\ UNCHANGED <<now, issued, store, nextId, gate, lo, sweeper, revoked, logins, boot,
                   moods, cm>>

\* variant: the handler has no AuthenticatedUser parameter and reads the
\* subject of whatever token the request carries
GetProfile_NoExtractor(poolOk) ==
    /\ resp.op = "gate"
    /\ LET id == parse(resp.req.hdr.rest.sub)
           found == \E u \in users : u.id = id.value
           r == IF ~id.ok THEN Reject(resp.req, "BadRequest", "Invalid user id")
                ELSE IF ~poolOk
                THEN Reject(resp.req, "InternalServerError", "Failed to get DB connection")
                ELSE IF ~found THEN Reject(resp.req, "NotFound", "User not found")
                ELSE [resp.req EXCEPT !.pc = "Done", !.kind = "Ok"]
       IN  resp' = [op |-> "get_profile", req |-> Ext(r, [user_id |-> id.value])]
    /\ out' = NoOut
    /\ UNCHANGED <<now, issued, store, nextId, gate, lo, sweeper, revoked, logins, boot,
                   users, moods, cm>>

\* api::user_handler::get_profile with user_service::get_user_by_id
GetProfile(poolOk) ==
    /\ Authenticated
    /\ LET id == parse(resp.req.principal)
           found == \E u \in users : u.id = id.value
           r == IF ~id.ok THEN Reject(resp.req, "BadRequest", "Invalid user id")
                ELSE IF ~poolOk
                THEN Reject(resp.req, "InternalServerError", "Failed to get DB connection")
                ELSE IF ~found THEN Reject(resp.req, "NotFound", "User not found")
                ELSE [resp.req EXCEPT !.pc = "Done", !.kind = "Ok"]
       IN  resp' = [op |-> "get_profile", req |-> Ext(r, [user_id |-> id.value])]
    /\ out' = NoOut
    /\ UNCHANGED <<now, issued, store, nextId, gate, lo, sweeper, revoked, logins, boot,
                   users, moods, cm>>

\* api::mood_handler::create_mood_handler and mood_service::create_mood up to
\* and including check_mood_exists_for_date
CreateMoodStart(p, mood, date, poolOk, queryOk) ==
    /\ Authenticated
    /\ cm[p].pc = "idle"
    /\ LET id == parse(resp.req.principal)
           d == mood_date(date, now)
           more == [user_id |-> id.value, mood_date |-> d, step |-> "start"]
           err == IF ~id.ok THEN <<"BadRequest", "Invalid user id">>
                  ELSE IF ~poolOk
                  THEN <<"InternalServerError", "Failed to get DB connection">>
                  ELSE IF ~MoodTypeKnown(mood) THEN <<"BadRequest", "Invalid mood type">>
                  ELSE IF ~queryOk THEN <<"DatabaseError", "query failed">>
                  ELSE IF check_mood_exists_for_date(moods, id.value, d)
                  THEN <<"BadRequest", "Mood already exists for this date">>
                  ELSE <<"", "">>
       IN  IF err[1] # ""
           THEN /\ resp' = [op |-> "create_mood",
                            req |-> Ext(Reject(resp.req, err[1], err[2]), more)]
                /\ cm' = cm
           ELSE /\ resp' = NoResp
                /\ cm' = [cm EXCEPT ![p] = [pc |-> "insert", user_id |-> id.value,
                                            date |-> date]]
    /\ out' = NoOut
    /\ UNCHANGED <<now, issued, store, nextId, gate, lo, sweeper, revoked, logins, boot,
                   users, moods>>

\* mood_query::create_mood: the insert, then the select of the row by user and date
CreateMoodInsert(p, insertOk) ==
    /\ cm[p].pc = "insert"
    /\ Cardinality(moods) < MaxMoods
    /\ LET d == mood_date(cm[p].date, now)
           more == [user_id |-> cm[p].user_id, mood_date |-> d, step |-> "insert"]
       IN  IF insertOk
           THEN /\ moods' = moods \cup {[id |-> Cardinality(moods) + 1,
                                         user_id |-> cm[p].user_id, date |-> d]}
                /\ resp' = [op |-> "create_mood",
                            req |-> Ext([Idle EXCEPT !.pc = "Done", !.kind = "Ok",
                                                     !.principal = to_string(cm[p].user_id)],
                                        more)]
           ELSE /\ moods' = moods
                /\ resp' = [op |-> "create_mood",
                            req |-> Ext(Reject([Idle EXCEPT !.principal =
                                                              to_string(cm[p].user_id)],
                                               "DatabaseError", "insert failed"), more)]
    /\ cm' = [cm EXCEPT ![p] = MoodIdle]
    /\ out' = NoOut
    /\ UNCHANGED <<now, issued, store, nextId, gate, lo, sweeper, revoked, logins, boot,
                   users>>

(***************************************************************************)
(* Login, the gate and the handlers behind it.  One account has a stored   *)
(* password that is not a bcrypt hash.  The clock stands still and no      *)
(* logout is made.                                                         *)
(***************************************************************************)
InitAccounts ==
    /\ now = 0
    /\ issued = {}
    /\ store = {}
    /\ nextId = 1
    /\ gate = [p \in GateProcs |-> Idle]
    /\ lo = [p \in {} |-> Idle]
    /\ sweeper = [pc |-> "sleep", sleep |-> SweepSleepSecs, cutoff |-> 0]
    /\ revoked = {}
    /\ resp = NoResp
    /\ logins = {}
    /\ out = NoOut
    /\ boot = Serving
    /\ users = UsersWithBrokenHash
    /\ moods = {}
    /\ cm = [p \in MoodProcs |-> MoodIdle]

NextAccounts ==
    \/ \E email \in Emails, pw \in Passwords, poolOk \in BOOLEAN, queryOk \in BOOLEAN :
         LoginAttempt(email, pw, poolOk, queryOk)
    \/ \E p \in DOMAIN gate, h \in Headers, poolOk \in BOOLEAN : GateStart(p, h, poolOk)
    \/ \E p \in DOMAIN gate, queryOk \in BOOLEAN : GateCheck(p, queryOk)
    \/ \E poolOk \in BOOLEAN : GetProfile(poolOk)
    \/ \E old \in Passwords, new \in Passwords, poolOk \in BOOLEAN, updateOk \in BOOLEAN :
         ChangePassword(old, new, poolOk, updateOk)
    \/ \E p \in MoodProcs, mood \in MoodNames, date \in Dates,
          poolOk \in BOOLEAN, queryOk \in BOOLEAN :
         CreateMoodStart(p, mood, date, poolOk, queryOk)
    \/ \E p \in MoodProcs, insertOk \in BOOLEAN : CreateMoodInsert(p, insertOk)

SpecAccounts == InitAccounts /\ [][NextAccounts]_vars

(***************************************************************************)
(* The gate, logout and the Sweeper as in Spec, with a handler behind the  *)
(* gate.                                                                   *)
(***************************************************************************)
NextGate ==
    \/ Next
    \/ \E poolOk \in BOOLEAN : GetProfile(poolOk)

SpecGate == Init /\ [][NextGate]_vars

(***************************************************************************)
(* The process from its start, in an environment that may lack JWT_SECRET  *)
(* or DATABASE_URL.                                                        *)
(***************************************************************************)
InitBoot ==
    /\ now = 0
    /\ issued = {}
    /\ store = {}
    /\ nextId = 1
    /\ gate = [p \in GateProcs |-> Idle]
    /\ lo = [p \in LogoutProcs |-> Idle]
    /\ sweeper = [pc |-> "sleep", sleep |-> SweepSleepSecs, cutoff |-> 0]
    /\ revoked = {}
    /\ resp = NoResp
    /\ logins = {}
    /\ out = NoOut
    /\ boot \in [phase : {"starting"}, jwtSecret : BOOLEAN, databaseUrl : BOOLEAN]
    /\ users = RegisteredUsers
    /\ moods = {}
    /\ cm = [p \in MoodProcs |-> MoodIdle]

\* main up to axum::serve: the only variable it reads is DATABASE_URL
Main ==
    /\ boot.phase = "starting"
    /\ boot' = [boot EXCEPT !.phase = IF boot.databaseUrl THEN "serving" ELSE "aborted"]
    /\ resp' = NoResp
    /\ out' = NoOut
    /\ UNCHANGED <<now, issued, store, nextId, gate, lo, sweeper, revoked, logins,
                   users, moods, cm>>

\* the thread of the request panics in validate_token:
\* std::env::var("JWT_SECRET").expect("JWT_SECRET must be set")
Panic(h) ==
    [Begin(h) EXCEPT !.pc = "Panicked", !.kind = "Panic", !.msg = "JWT_SECRET must be set"]

\* from_request_parts reaches validate_token with JWT_SECRET unset
GatePanic(p, h) ==
    /\ boot.phase = "serving"
    /\ ~boot.jwtSecret
    /\ gate[p].pc = "idle"
    /\ HeaderError(h) = ""
    /\ resp' = [op |-> "gate", req |-> Panic(h)]
    /\ out' = NoOut
    /\ UNCHANGED <<now, issued, store, nextId, gate, lo, sweeper, revoked, logins, boot, users, moods, cm>>

\* logout_user reaches validate_token with JWT_SECRET unset
LogoutPanic(p, h) ==
    /\ boot.phase = "serving"
    /\ ~boot.jwtSecret
    /\ lo[p].pc = "idle"
    /\ HeaderError(h) = ""
    /\ resp' = [op |-> "logout", req |-> [Panic(h) EXCEPT !.conn = "ok"]]
    /\ out' = NoOut
    /\ UNCHANGED <<now, issued, store, nextId, gate, lo, sweeper, revoked, logins, boot, users, moods, cm>>

\* axum::serve is running (the Sweeper was spawned just before it)
Up == boot.phase = "serving"

NextBoot ==
    \/ Main
    \/ Up /\ TickDay
    \/ Up /\ TickLeeway
    \/ Up /\ \E u \in Subjects : Login(u)
    \/ Up /\ \E p \in DOMAIN gate, h \in Headers, poolOk \in BOOLEAN : GateStart(p, h, poolOk)
    \/ Up /\ \E p \in DOMAIN gate, queryOk \in BOOLEAN : GateCheck(p, queryOk)
    \/ Up /\ \E p \in DOMAIN lo, h \in Headers, poolOk \in BOOLEAN : LogoutStart(p, h, poolOk)
    \/ Up /\ \E p \in DOMAIN lo, queryOk \in BOOLEAN : LogoutCheck(p, queryOk)
    \/ Up /\ \E p \in DOMAIN lo, insertOk \in BOOLEAN : LogoutInsert(p, insertOk)
    \/ Up /\ \E poolOk \in BOOLEAN : SweepWake(poolOk)
    \/ Up /\ \E deleteOk \in BOOLEAN : SweepDelete(deleteOk)
    \/ \E p \in DOMAIN gate, h \in Headers : GatePanic(p, h)
    \/ \E p \in DOMAIN lo, h \in Headers : LogoutPanic(p, h)

SpecBoot == InitBoot /\ [][NextBoot]_vars

(***************************************************************************)
(* Properties.                                                             *)
(***************************************************************************)
GateResp == resp.op = "gate"
LogoutResp == resp.op = "logout"
Tok == resp.req.hdr.rest
Accepted == GateResp /\ resp.req.pc = "Authenticated"
Status == StatusCode(resp.req.kind)

\* C1: a gate request that presents a token after that token's logout has
\* succeeded, and whose token still decodes, is rejected.
C1_RevokedUnexpiredTokenIsRejected ==
    (GateResp /\ resp.req.afterRevoke /\ resp.req.decoded)
        => (resp.req.pc = "Rejected" /\ resp.req.kind # "Ok")

\* a request started after the revocation is turned down as blacklisted while
\* validate_token alone still accepts its token
C1_Witness ==
    /\ GateResp
    /\ resp.req.afterRevoke
    /\ validate_token(Tok, now).ok
    /\ resp.req.check = "present"
    /\ resp.req.msg = "Token is blacklisted"
    /\ Status = 401

\* C2: no gate request is accepted with a token whose logout has succeeded,
\* whether its record is still in the store or the Sweeper has evicted it.
C2_RevokedTokenNeverAcceptedAgain ==
    Accepted => Tok \notin revoked

\* a revoked token whose record the Sweeper has evicted is presented and rejected
C2_Witness ==
    /\ GateResp
    /\ Tok \in revoked
    /\ Tok \notin StoreTokens
    /\ resp.req.afterRevoke
    /\ resp.req.pc = "Rejected"

\* C3: fail closed: a gate request is in Authenticated only if it took a
\* connection and its membership query completed with the answer 'absent';
\* a decoded request whose checkout or query failed is rejected.
C3_FailClosed ==
    /\ Accepted => (resp.req.conn = "ok" /\ resp.req.check = "absent")
    /\ (GateResp /\ resp.req.decoded
            /\ (resp.req.conn = "failed" \/ resp.req.check = "error"))
        => resp.req.pc = "Rejected"

\* the membership query of a request with a valid, never revoked token fails
C3_Witness ==
    /\ GateResp
    /\ resp.req.decoded
    /\ resp.req.check = "error"
    /\ Tok \notin revoked
    /\ resp.req.pc = "Rejected"

\* C4: a gate request is accepted only if its token was absent from the store
\* at the moment of its own membership query; a query made when the record is
\* there never answers 'absent'.
C4_AcceptedOnlyIfAbsentAtCheck ==
    /\ Accepted => ~resp.req.presentAtCheck
    /\ (GateResp /\ resp.req.presentAtCheck) => resp.req.check # "absent"

\* the request started before the logout committed and queried after it
C4_Witness ==
    /\ GateResp
    /\ ~resp.req.afterRevoke
    /\ resp.req.presentAtCheck
    /\ resp.req.check = "present"
    /\ resp.req.pc = "Rejected"

\* C5: a logout whose membership query finds the token in the store is
\* rejected with Unauthorized and leaves the store as it was; no logout that
\* meets the token's record in the store ends in success.
C5_SecondLogoutUnauthorized ==
    [][(resp'.op = "logout" /\ resp'.req.presentAtCheck)
        => /\ store' = store
           /\ resp'.req.pc = "Rejected"
           /\ resp'.req.check = "present"
               => (StatusCode(resp'.req.kind) = 401
                   /\ resp'.req.msg = "Token is already blacklisted")]_vars

\* the second of two logouts of one token, made after the first returned
C5_Witness ==
    /\ LogoutResp
    /\ resp.req.afterRevoke
    /\ resp.req.check = "present"
    /\ Status = 401
    /\ Tok \in StoreTokens

\* C6: a logout with a Bearer token that is validly signed, unexpired and not
\* in the store, and whose store calls do not fail, answers 200 with the
\* confirmation message and leaves a record with exactly that token string.
C6_ValidLogoutSucceeds ==
    (/\ LogoutResp
     /\ HeaderError(resp.req.hdr) = ""
     /\ Tok.sig = "good"
     /\ ~resp.req.dueAtDecode
     /\ resp.req.conn = "ok"
     /\ resp.req.check # "error"
     /\ ~resp.req.presentAtCheck
     /\ resp.req.kind # "DatabaseError")
        => /\ resp.req.pc = "Done"
           /\ Status = 200
           /\ resp.req.msg = "Successfully logged out"
           /\ \E r \in store : r.token = Tok

\* a logout has just succeeded and its token is in the store
C6_Witness ==
    /\ LogoutResp
    /\ resp.req.pc = "Done"
    /\ ~resp.req.dueAtDecode
    /\ Status = 200
    /\ \E r \in store : r.token = Tok /\ r.created_at = now

\* C7: a logout whose token is invalid (bad signature, malformed or expired)
\* answers 401 whatever the state of the store and of the pool.  (The part
\* "adds nothing to the store" is C7_InvalidLogoutAddsNothing.)
C7_InvalidLogoutIs401 ==
    (/\ LogoutResp
     /\ HeaderError(resp.req.hdr) = ""
     /\ (Tok.sig # "good" \/ resp.req.staleAtDecode))
        => (resp.req.pc = "Rejected" /\ Status = 401)

\* a logout with an invalid token never changes the store
C7_InvalidLogoutAddsNothing ==
    [][(/\ resp'.op = "logout"
        /\ (resp'.req.hdr.rest.sig # "good" \/ resp'.req.staleAtDecode))
        => store' = store]_vars

\* C8: revocation is per token: a request with a valid token that was never
\* revoked, whose store calls do not fail, is accepted as the token's subject
\* whatever other tokens have been revoked.
C8_RevocationIsPerToken ==
    (/\ GateResp
     /\ HeaderError(resp.req.hdr) = ""
     /\ Tok.sig = "good"
     /\ ~resp.req.dueAtDecode
     /\ Tok \notin revoked
     /\ resp.req.conn = "ok"
     /\ resp.req.check # "error")
        => (resp.req.pc = "Authenticated" /\ resp.req.principal = Tok.sub)

\* a token is accepted while another token of the same subject is in the store
C8_Witness ==
    /\ Accepted
    /\ \E r \in store : r.token # Tok /\ r.token.sub = Tok.sub

\* C9: a request (to the gate or to logout) whose Authorization header is
\* absent or does not start with "Bearer " is rejected with 401, whatever
\* the rest of the header is.
C9_WrongSchemeRejected ==
    (/\ resp.op # "none"
     /\ (resp.req.hdr.kind = "absent" \/ resp.req.hdr.prefix # "Bearer "))
        => (resp.req.pc = "Rejected" /\ Status = 401)

\* the header "Token <t>" with t a valid, unexpired, non-revoked token
C9_Witness ==
    /\ GateResp
    /\ resp.req.hdr.kind = "text"
    /\ resp.req.hdr.prefix # "Bearer "
    /\ validate_token(Tok, now).ok
    /\ Tok \notin StoreTokens
    /\ Status = 401

C12_EveryRejectionUnauthorized ==
    (GateResp /\ resp.req.pc = "Rejected") => resp.req.kind = "Unauthorized"

\* C12, amended: a rejection of the gate for a missing header, a wrong scheme,
\* a bad signature, an expired or a revoked token has the kind Unauthorized
\* (401); a rejection for a store error (checkout or membership query) has
\* the kind InternalServerError (500).
C12_RejectionKinds ==
    (GateResp /\ resp.req.pc = "Rejected")
        => IF resp.req.conn = "failed" \/ resp.req.check = "error"
           THEN resp.req.kind = "InternalServerError" /\ Status = 500
           ELSE resp.req.kind = "Unauthorized" /\ Status = 401

\* a token with a bad signature is turned down as Unauthorized
C12_Witness ==
    /\ GateResp
    /\ HeaderError(resp.req.hdr) = ""
    /\ Tok.sig = "bad"
    /\ resp.req.pc = "Rejected"
    /\ resp.req.kind = "Unauthorized"

\* C13: the responses to an expired, a forged and a revoked token are the
\* same in status and message (the one given for an undecodable token), so
\* that the caller cannot tell the cases apart.
C13_SameResponseForExpiredForgedRevoked ==
    (/\ resp.op # "none"
     /\ HeaderError(resp.req.hdr) = ""
     /\ resp.req.conn = "ok"
     /\ resp.req.check # "error"
     /\ \/ Tok.sig # "good"
        \/ resp.req.staleAtDecode
        \/ resp.req.check = "present")
        => (Status = 401 /\ resp.req.msg = "Invalid token")

\* C14: a store failure (connection checkout or membership query) during the
\* authorization check of the gate or of logout denies the request and is
\* answered with the 5xx of InternalServerError.
C14_StoreFailureIs5xx ==
    (resp.op # "none" /\ (resp.req.conn = "failed" \/ resp.req.check = "error"))
        => /\ resp.req.pc = "Rejected"
           /\ resp.req.kind = "InternalServerError"
           /\ Status = 500

\* the membership query of a logout with a valid token fails
C14_Witness ==
    /\ LogoutResp
    /\ resp.req.decoded
    /\ resp.req.check = "error"
    /\ Status = 500
    /\ Tok \notin StoreTokens

\* C15: a successful evictOlderThan(cutoff) removes exactly the records with
\* revoked_at < cutoff, keeps every other record (one with revoked_at = cutoff
\* included) as it is, and returns the number of records removed; when no
\* record qualifies it returns 0 and the store is unchanged.
C15_EvictsExactlyOlderThanCutoff ==
    [][out'.kind = "Cleaned up"
        => /\ store' = {r \in store : r.created_at >= out'.cutoff}
           /\ out'.count = Cardinality(store) - Cardinality(store')
           /\ (\A r \in store : r.created_at >= out'.cutoff)
                => (store' = store /\ out'.count = 0)]_vars

\* a sweep has removed one record and kept the record revoked exactly at the cutoff
C15_Witness ==
    /\ out.kind = "Cleaned up"
    /\ out.count = 1
    /\ \E r \in store : r.created_at = out.cutoff

C17_TokenIdentifiesOneRecord ==
    \A r1, r2 \in store : r1.token = r2.token => r1 = r2

\* C18: the Sweeper is one loop; each iteration sleeps 24 hours and only
\* then sweeps, with cutoff = (time at which the sweep begins) - 7 days.  So a
\* sweep begins only when the whole interval has elapsed since the start of
\* the process or since the end of the previous sweep, no record leaves the
\* store before the first 24 hours have elapsed, and a record that leaves
\* the store was revoked at least 7 days before: one revoked less than 7
\* days before a sweep survives it.
C18_SleepsThenEvictsSevenDaysOld ==
    [][/\ (sweeper.pc = "sleep" /\ (sweeper'.pc = "delete" \/ out'.kind # "none"))
            => /\ sweeper.sleep = 0
               /\ now >= 24 * 60 * 60
               /\ store' = store
               /\ sweeper'.pc = "delete" => sweeper'.cutoff = now - 7 * 24 * 60 * 60
       /\ (sweeper.pc = "delete" /\ sweeper' # sweeper)
            => /\ sweeper'.pc = "sleep"
               /\ sweeper'.sleep = 24 * 60 * 60
       /\ sweeper'.sleep < sweeper.sleep
            => now' - now >= sweeper.sleep - sweeper'.sleep
       /\ \A r \in store \ store' :
            /\ now >= 24 * 60 * 60
            /\ r.created_at + 7 * 24 * 60 * 60 <= now
            /\ sweeper.pc = "delete"
       /\ sweeper'.pc \in {"sleep", "delete"}]_vars

\* a sweep has evicted one record and kept one that was revoked less than 7
\* days before it
C18_Witness ==
    /\ out.kind = "Cleaned up"
    /\ out.count = 1
    /\ \E r \in store : r.created_at + 7 * 24 * 60 * 60 > now

\* C19: a failed sweep is never fatal: when the sweep gets no connection or
\* its delete fails, the store is as before the sweep, and the loop is at the
\* start of its next 24-hour sleep, exactly as at the start of the process,
\* from where the next sweep is attempted.
C19_FailedSweepNotFatal ==
    [][out'.kind \in {"Failed to get DB connection for cleanup",
                      "Failed to cleanup expired tokens"}
        => /\ store' = store
           /\ sweeper' = [pc |-> "sleep", sleep |-> SweepSleepSecs, cutoff |-> 0]
           /\ boot' = boot /\ boot.phase = "serving"]_vars

\* the delete of a sweep has failed with a record in the store that it would
\* have evicted
C19_Witness ==
    /\ out.kind = "Failed to cleanup expired tokens"
    /\ \E r \in store : r.created_at < out.cutoff
    /\ sweeper.pc = "sleep"

\* C20: a missing signing secret aborts startup: the server never accepts
\* requests while JWT_SECRET is absent, and no request is the first to find
\* it absent.
C20_MissingSecretAbortsStartup ==
    /\ boot.phase = "serving" => boot.jwtSecret
    /\ resp.op # "none" => resp.req.kind # "Panic"

\* C24 (as claimed): a record is created only by a logout whose token is
\* validated and unexpired at insertion time, and every logout that fails
\* leaves the store unchanged.
C24_RecordOnlyForTokenUnexpiredAtInsert ==
    [][/\ (resp'.op = "logout" /\ resp'.req.pc = "Rejected") => store' = store
       /\ \A r \in store' \ store :
            /\ resp'.op = "logout" /\ resp'.req.pc = "Done"
            /\ resp'.req.hdr.rest = r.token
            /\ validate_token(r.token, now').ok]_vars

\* C24 (amended): a record is created only by a logout that succeeds, for
\* the token of that logout, which carried the Bearer scheme, decoded with a
\* good signature and unexpired when the logout validated it, and was found
\* absent by the membership query; every logout that fails leaves the store
\* unchanged.
C24_RecordOnlyByLogoutThatDecoded ==
    [][/\ (resp'.op = "logout" /\ resp'.req.pc = "Rejected") => store' = store
       /\ \A r \in store' \ store :
            /\ resp'.op = "logout" /\ resp'.req.pc = "Done"
            /\ resp'.req.hdr.rest = r.token
            /\ HeaderError(resp'.req.hdr) = ""
            /\ resp'.req.decoded
            /\ r.token.sig = "good"
            /\ ~resp'.req.staleAtDecode
            /\ resp'.req.check = "absent"
            /\ r.created_at = now'
            /\ store' = store \cup {r}]_vars

\* a logout has failed at the membership query with a record in the store,
\* which is still there
C24_Witness ==
    /\ LogoutResp
    /\ resp.req.pc = "Rejected"
    /\ resp.req.check = "present"
    /\ \E r \in store : r.token = Tok /\ r.created_at < now

\* how far a gate request g got is consistent with the order header present,
\* scheme valid, token decodes, connection, membership query
GateOrder(g) ==
    /\ HeaderError(g.hdr) # "" => ~g.decoded
    /\ g.decoded => (g.hdr.rest.sig = "good" /\ ~g.staleAtDecode)
    /\ g.conn # "none" => g.decoded
    /\ g.check # "none" => g.conn = "ok"

\* C25: the gate checks in the order header present, scheme valid, token
\* decodes, not revoked, and stops at the first failure: a connection is
\* taken and the store queried only after the token has decoded, so a request
\* with a missing header, a wrong scheme or an undecodable token is rejected
\* with that failure's message without touching the pool or the store.
C25_GateOrderStopsAtFirstFailure ==
    /\ \A p \in DOMAIN gate : gate[p].pc # "idle" => GateOrder(gate[p])
    /\ GateResp =>
         /\ GateOrder(resp.req)
         /\ HeaderError(resp.req.hdr) # ""
              => /\ resp.req.pc = "Rejected"
                 /\ resp.req.msg = HeaderError(resp.req.hdr)
                 /\ resp.req.conn = "none" /\ resp.req.check = "none"
         /\ (HeaderError(resp.req.hdr) = "" /\ ~resp.req.decoded)
              => /\ resp.req.pc = "Rejected"
                 /\ resp.req.msg = "Invalid token"
                 /\ resp.req.conn = "none" /\ resp.req.check = "none"
         /\ (resp.req.decoded /\ resp.req.conn = "failed")
              => resp.req.pc = "Rejected" /\ resp.req.check = "none"

\* a request with the Bearer scheme and an undecodable token has been
\* rejected before any connection was taken
C25_Witness ==
    /\ GateResp
    /\ HeaderError(resp.req.hdr) = ""
    /\ Tok.sig # "good"
    /\ resp.req.msg = "Invalid token"
    /\ resp.req.conn = "none"

\* C27: the store changes only in two ways: a successful logout adds exactly
\* one record (under a new id), and a successful sweep removes records; no
\* other step, a gate request in particular, changes the store, and a record
\* that stays keeps its token string and its created_at.
C27_StoreChangesOnlyByLogoutAndSweep ==
    [][/\ (resp'.op = "logout" /\ resp'.req.pc = "Done")
            => \E r \in store' : /\ store' = store \cup {r}
                                 /\ \A q \in store : q.id # r.id
       /\ out'.kind = "Cleaned up" => store' \subseteq store
       /\ ~(resp'.op = "logout" /\ resp'.req.pc = "Done") /\ out'.kind # "Cleaned up"
            => store' = store
       /\ (gate' # gate \/ resp'.op = "gate") => store' = store
       /\ \A q \in store, r \in store' : q.id = r.id => q = r]_vars

\* a gate request has been answered while the store holds a record
C27_Witness ==
    /\ GateResp
    /\ resp.req.check = "absent"
    /\ store # {}

\* C29: of two parallel logouts of the same valid, not yet revoked token at
\* most one returns success: no logout succeeds for a token whose record
\* another logout has already inserted.
C29_AtMostOneParallelLogoutSucceeds ==
    (LogoutResp /\ resp.req.presentAtInsert) => resp.req.pc # "Done"

\* C28: when the Sweeper is scheduled fairly and sweeps eventually succeed,
\* every record inserted into the store is eventually evicted, and a
\* successful sweep leaves no record older than its cutoff behind.
C28_EveryRecordEventuallyEvicted ==
    /\ \A i \in 1..MaxRecords :
         (\E r \in store : r.id = i) ~> ~(\E r \in store : r.id = i)
    /\ [][out'.kind = "Cleaned up"
            => \A r \in store' : r.created_at >= out'.cutoff]_vars

\* a sweep has evicted the last records of the store, among them one that
\* was revoked a day after the start
C28_Witness ==
    /\ out.kind = "Cleaned up"
    /\ out.count >= 1
    /\ out.cutoff > Day
    /\ store = {}

\* the row of users that a login or a change of password is about, if any
LoginRows == {u \in users : u.email = resp.req.email}
WrongPassword(u, pw) == u.password.alg = "bcrypt" /\ u.password.of # pw

\* C21: a login with an unknown email and a login with a known email and a
\* wrong password get the same response, 401 Unauthorized with the message
\* "Invalid email or password", and neither issues a token.
C21_FailedLoginDoesNotTellWhich ==
    [][(/\ resp'.op = "login"
        /\ resp'.req.query = "ok"
        /\ LET rows == {u \in users : u.email = resp'.req.email}
           IN  rows = {} \/ \E u \in rows : WrongPassword(u, resp'.req.password))
        => /\ resp'.req.pc = "Rejected"
           /\ StatusCode(resp'.req.kind) = 401
           /\ resp'.req.msg = "Invalid email or password"
           /\ resp'.req.token = NoToken
           /\ issued' = issued
           /\ logins' = logins]_vars

\* a login with a known email and a wrong password has been answered 401
C21_Witness ==
    /\ resp.op = "login"
    /\ resp.req.query = "ok"
    /\ \E u \in LoginRows : WrongPassword(u, resp.req.password)
    /\ Status = 401

\* C22: in login a wrong password is answered Unauthorized, a stored hash
\* that the verifier cannot read is answered InternalServerError, and an
\* InternalServerError answer is the answer that the same request gets when
\* no account exists for the email.
C22_VerifierErrorDoesNotLeak ==
    (resp.op = "login" /\ resp.req.query = "ok")
        => /\ \A u \in LoginRows :
                /\ WrongPassword(u, resp.req.password) => resp.req.kind = "Unauthorized"
                /\ u.password.alg # "bcrypt" => resp.req.kind = "InternalServerError"
           /\ resp.req.kind = "InternalServerError"
                => LET r == login_user(users \ LoginRows, resp.req.email,
                                       resp.req.password, TRUE, TRUE, now)
                   IN  r.kind = resp.req.kind /\ r.msg = resp.req.msg

\* C22, the part that holds: a wrong password is answered Unauthorized and an
\* unreadable stored hash InternalServerError
C22_WrongPasswordAndMalfunctionDistinguished ==
    (resp.op = "login" /\ resp.req.query = "ok")
        => \A u \in LoginRows :
             /\ WrongPassword(u, resp.req.password) => resp.req.kind = "Unauthorized"
             /\ u.password.alg # "bcrypt" => resp.req.kind = "InternalServerError"

\* C23: an authenticated change-password request with a wrong old password
\* is rejected with 401 Unauthorized and leaves the stored password
\* unchanged; with the correct old password it succeeds.
C23_WrongOldPasswordIs401 ==
    [][(resp'.op = "change_password" /\ resp'.req.pool)
        => \A u \in users :
             u.id = resp'.req.user_id
               => /\ WrongPassword(u, resp'.req.old)
                     => StatusCode(resp'.req.kind) = 401 /\ users' = users
                  /\ (u.password = hash(resp'.req.old) /\ resp'.req.pc = "Done")
                     => users' = (users \ {u})
                                   \cup {[u EXCEPT !.password = hash(resp'.req.new)]}]_vars

\* C23, the part that holds: a wrong old password is rejected and leaves the
\* users table unchanged
C23_WrongOldPasswordChangesNothing ==
    [][(resp'.op = "change_password" /\ resp'.req.pool)
        => \A u \in users :
             (u.id = resp'.req.user_id /\ WrongPassword(u, resp'.req.old))
               => resp'.req.pc = "Rejected" /\ users' = users]_vars

\* C26: a gate request is accepted if and only if its header is present
\* with the Bearer scheme, its token decodes (good signature, unexpired) and
\* the membership query completes with "absent"; the principal of an accepted
\* request is the subject claim of its token; and a protected handler runs
\* only for a request that the gate has just accepted, for that principal.
C26_AcceptedIffChecksPass ==
    /\ [](GateResp =>
            /\ (resp.req.pc = "Authenticated")
                 <=> /\ HeaderError(resp.req.hdr) = ""
                     /\ Tok.sig = "good"
                     /\ ~resp.req.staleAtDecode
                     /\ resp.req.conn = "ok"
                     /\ resp.req.check = "absent"
            /\ resp.req.pc = "Authenticated"
                 => resp.req.principal = Tok.sub /\ resp.req.kind = "Ok")
    /\ [][resp'.op = "get_profile"
            => /\ resp.op = "gate" /\ resp.req.pc = "Authenticated"
               /\ resp'.req.hdr = resp.req.hdr
               /\ resp'.req.principal = resp.req.hdr.rest.sub
               /\ to_string(resp'.req.user_id) = resp'.req.principal]_vars

\* the handler has answered for the principal of an accepted request
C26_Witness ==
    /\ resp.op = "get_profile"
    /\ resp.req.pc = "Done"
    /\ resp.req.principal = Tok.sub
    /\ resp.req.check = "absent"

\* C30: there is at most one mood entry per (user, date), also when two
\* create_mood requests for the same user and date run in parallel.
C30_OneMoodPerUserAndDate ==
    \A m1, m2 \in moods :
        (m1.user_id = m2.user_id /\ m1.date = m2.date) => m1 = m2

\* C30, the part that holds: a create_mood that finds an entry for the user
\* and date at its check is rejected with BadRequest and adds nothing
C30_ExistingMoodRejected ==
    [][(/\ resp'.op = "create_mood"
        /\ resp'.req.step = "start"
        /\ resp'.req.kind \notin {"InternalServerError", "DatabaseError"}
        /\ \E m \in moods : m.user_id = resp'.req.user_id /\ m.date = resp'.req.mood_date)
        => /\ resp'.req.kind = "BadRequest"
           /\ moods' = moods]_vars

====
